---- MODULE Spec2Model ----
(***************************************************************************)
(* Model of canonical/jira-summarizer: the concurrent build of the issue   *)
(* tree (internal/jira/jira.go, internal/jira/issues.go), the status       *)
(* history resolution, and the recency filter (Issue.KeptRecentEvents,     *)
(* filterEvents).                                                          *)
(*                                                                         *)
(* Three specifications share the module:                                  *)
(*   SpecFilter  - the recency filter as a function of (issue, sinceTime)  *)
(*   SpecStatus  - Issue.fetchStatusUpdate over a changelog                *)
(*   Spec        - getIssuesByJQL / newIssueFromJsonIssue / runRoot        *)
(***************************************************************************)
EXTENDS Integers, Sequences, FiniteSets, TLC

VARIABLES
    filt,       \* recency filter run: input issue, cutoff, results
    chg,        \* status-history resolution run: changelog, issue status
    pc,         \* getIssuesByJQL: "query", "loop" or "done"
    node,       \* newIssueFromJsonIssue per issue: "idle", "running", "built", "failed"
    facet,      \* the three g.Go tasks of each issue: "idle", "run", "ok", "err"
    kidx,       \* fetchChildren: index of the child being built
    kids,       \* i.Children of each issue, as appended so far
    ctxDone,    \* is the errgroup context of the issue cancelled
    groupErr,   \* the first error of the errgroup of the issue
    gor,        \* builder goroutine per top issue: "building", "sending", "done"
    topErr,     \* first error of the errgroup of the top issues (<< >>: none)
    topCancel,  \* is topIssuesCtx cancelled
    chClosed,   \* is issueCh closed
    yielded,    \* what the caller of the iterator received, in order
    badCreated, \* the issues whose creation time did not parse
    overlap,    \* the parents that had two child builds in flight at once
    col         \* collect and what follows it: phase, inputs and results

bvars == <<pc, node, facet, kidx, kids, ctxDone, groupErr,
           gor, topErr, topCancel, chClosed, yielded, badCreated, overlap>>

vars == <<filt, chg, col, bvars>>

\* no assembly is running (the specifications of the pure functions)
NoBuild ==
    /\ pc = "off" /\ node = << >> /\ facet = << >>
    /\ kidx = << >> /\ kids = << >> /\ ctxDone = << >> /\ groupErr = << >>
    /\ gor = << >> /\ topErr = "" /\ topCancel = FALSE
    /\ chClosed = FALSE /\ yielded = << >>
    /\ badCreated = {} /\ overlap = {}

----------------------------------------------------------------------------
(* Time.  time.Time values are integers; the zero value time.Time{} is 0   *)
(* and every parsed timestamp is later than it.                            *)

ZeroTime == 0

\* The cutoff of the run (sinceTime); node times lie around it.
Cutoff == 2

MaxComments == 2
MaxChildren == 2

\* changelog entries per issue, and items per entry
MaxChanges == 2
MaxItems == 2

After(t, u) == t > u
Before(t, u) == t < u

Times == {Cutoff - 1, Cutoff, Cutoff + 1}

----------------------------------------------------------------------------
(* Issues (internal/jira/issues.go, type Issue).  A Key is a path of       *)
(* naturals; the empty path stands for the empty string.                   *)

NoStatus == [Name |-> "", Who |-> "", When |-> ZeroTime]

MkComment(t) == [Content |-> "text", Who |-> "author", When |-> t]

MkIssue(key, created, status, comments, children) ==
    [Key |-> key, IssueType |-> "Task", Created |-> created, Status |-> status,
     Comments |-> comments, Children |-> children]

\* Issue.Embedder
Embedder(i) == i.Key = << >> \/ Len(i.Children) > 0

\* i.Created.After(sinceTime)
CreatedRecentlyGE(i, sinceTime) == ~Before(i.Created, sinceTime)
CreatedRecently(i, sinceTime) == After(i.Created, sinceTime)

\* i.Status.When.After(sinceTime)
StatusRecentlyGE(i, sinceTime) == ~Before(i.Status.When, sinceTime)
StatusRecently(i, sinceTime) == After(i.Status.When, sinceTime)

\* the comment loop: keep the comments that are not before sinceTime
RecentCommentsStrict(comments, sinceTime) ==
    SelectSeq(comments, LAMBDA c : After(c.When, sinceTime))
RecentComments(comments, sinceTime) ==
    SelectSeq(comments, LAMBDA c : ~Before(c.When, sinceTime))

\* hasChanges = true inside the comment loop: set when a comment is kept
CommentChangesAny(comments, recent) == Len(comments) > 0
CommentChanges(comments, recent) == Len(recent) > 0

\* the children loop: keep, in order, the filtered copies of the children
\* whose own KeptRecentEvents returned true
KeptChildrenAll(results) == [k \in 1..Len(results) |-> results[k].issue]
KeptChildren(results) ==
    LET kept == SelectSeq(results, LAMBDA r : r.hasChanged)
    IN [k \in 1..Len(kept) |-> kept[k].issue]

\* Issue.KeptRecentEvents: the filtered issue and the returned hasChanged
RECURSIVE KeptRecentEvents(_, _)
KeptRecentEvents(i, sinceTime) ==
    LET statusChanged == StatusRecently(i, sinceTime)
        recentComments == RecentComments(i.Comments, sinceTime)
        results == [k \in 1..Len(i.Children) |->
                        KeptRecentEvents(i.Children[k], sinceTime)]
        children == KeptChildren(results)
    IN [issue |-> [i EXCEPT !.Status.Name = IF statusChanged THEN @ ELSE "",
                            !.Comments = recentComments,
                            !.Children = children],
        hasChanged |-> \/ CreatedRecently(i, sinceTime)
                       \/ statusChanged
                       \/ CommentChanges(i.Comments, recentComments)
                       \/ Len(children) > 0]

\* filterEvents: an embedder top issue loses its comments, then the filter
\* decides whether the (filtered) issue is relevant
FilterTopKeepsComments(i, sinceTime) == KeptRecentEvents(i, sinceTime)
FilterTop(i, sinceTime) ==
    KeptRecentEvents(IF Embedder(i) THEN [i EXCEPT !.Comments = << >>] ELSE i,
                     sinceTime)

RECURSIVE filterEvents(_, _)
filterEvents(topIssues, sinceTime) ==
    IF topIssues = << >> THEN << >>
    ELSE LET r == FilterTop(Head(topIssues), sinceTime)
         IN (IF r.hasChanged THEN <<r.issue>> ELSE << >>)
                \o filterEvents(Tail(topIssues), sinceTime)

----------------------------------------------------------------------------
(* Inputs of the filter: built trees.                                      *)

RECURSIVE SeqsUpTo(_, _)
SeqsUpTo(S, n) ==
    IF n = 0 THEN {<< >>}
    ELSE LET shorter == SeqsUpTo(S, n - 1)
         IN shorter \cup
            {Append(s, x) : s \in {y \in shorter : Len(y) = n - 1}, x \in S}

\* non-decreasing sequences of times of length <= n (comments are fetched
\* with orderBy=created)
AscSeqs(n) ==
    {s \in SeqsUpTo(Times, n) : \A k \in 1..(Len(s) - 1) : s[k] <= s[k + 1]}

Done(when) == [Name |-> "Done", Who |-> IF when = ZeroTime THEN "" ELSE "who",
               When |-> when]

CommentSeqs == {[k \in 1..Len(s) |-> MkComment(s[k])] : s \in AscSeqs(MaxComments)}

\* a few issue contents: quiet, created recently, status changed recently,
\* commented at the cutoff
SmallIssues(childSeqs) ==
    {MkIssue(<<0>>, c.created, Done(c.when), c.comments, ch) :
        c \in {[created |-> Cutoff - 1, when |-> ZeroTime, comments |-> << >>],
               [created |-> Cutoff + 1, when |-> ZeroTime, comments |-> << >>],
               [created |-> Cutoff - 1, when |-> Cutoff + 1, comments |-> << >>],
               [created |-> Cutoff - 1, when |-> ZeroTime,
                comments |-> <<MkComment(Cutoff)>>]},
        ch \in childSeqs}

\* every issue content around the cutoff
AllIssues(childSeqs) ==
    {MkIssue(<<0>>, created, Done(when), comments, ch) :
        created \in Times, when \in {ZeroTime} \cup Times,
        comments \in CommentSeqs, ch \in childSeqs}

Leaves == SmallIssues({<< >>})
Mids == SmallIssues({<< >>} \cup {<<l>> : l \in Leaves})

\* wide trees (every content at the root, leaves below) and deep trees
\* (two levels below the root)
Trees ==
    AllIssues(SeqsUpTo(Leaves, MaxChildren))
      \cup SmallIssues(SeqsUpTo(Mids, MaxChildren))

\* give every node the key of its position
RECURSIVE Rekey(_, _)
Rekey(i, key) ==
    [i EXCEPT !.Key = key,
              !.Children = [k \in 1..Len(i.Children) |->
                                Rekey(i.Children[k], Append(key, k))]]

----------------------------------------------------------------------------
(* SpecFilter: the filter applied once and twice, and filterEvents.        *)

NoResult == [issue |-> MkIssue(<< >>, ZeroTime, NoStatus, << >>, << >>),
             hasChanged |-> FALSE]

\* fetchChildren's loop body: i.Children = append(i.Children, child)
PrependChild(children, child) == <<child>> \o children
AppendChild(children, child) == Append(children, child)

\* newIssueFromJsonIssue on an answer of the gateway, every fetch succeeding:
\* the children are built one by one from the answer of the child query and
\* appended as they come (fetchChildren)
RECURSIVE BuiltIssue(_)
RECURSIVE BuiltChildren(_, _)
BuiltChildren(children, childrenJson) ==
    IF childrenJson = << >> THEN children
    ELSE BuiltChildren(AppendChild(children, BuiltIssue(Head(childrenJson))),
                       Tail(childrenJson))

BuiltIssue(json) == [json EXCEPT !.Children = BuiltChildren(<< >>, json.Children)]

\* the gateway's answers for one top issue: json.Children is the answer of
\* the child query, in the order the gateway returned it
FilterInit ==
    /\ \E t \in Trees :
          filt = [phase |-> "raw", json |-> Rekey(t, <<1>>),
                  issue |-> NoResult.issue, sinceTime |-> Cutoff,
                  once |-> NoResult, twice |-> NoResult, relevant |-> << >>]
    /\ chg = << >>
    /\ col = << >>
    /\ NoBuild

\* the top issue is built from the answers
FilterBuild ==
    /\ filt.phase = "raw"
    /\ filt' = [filt EXCEPT !.phase = "built", !.issue = BuiltIssue(filt.json)]
    /\ UNCHANGED <<chg, col, bvars>>

\* i.KeptRecentEvents(sinceTime) on the built issue
FilterOnce ==
    /\ filt.phase = "built"
    /\ filt' = [filt EXCEPT !.phase = "once",
                            !.once = KeptRecentEvents(filt.issue, filt.sinceTime)]
    /\ UNCHANGED <<chg, col, bvars>>

\* i.KeptRecentEvents(sinceTime) again, on the issue the first call left
FilterTwice ==
    /\ filt.phase = "once"
    /\ filt' = [filt EXCEPT !.phase = "twice",
                            !.twice = KeptRecentEvents(filt.once.issue, filt.sinceTime)]
    /\ UNCHANGED <<chg, col, bvars>>

\* filterEvents([]Issue{issue}, sinceTime)
FilterEvents ==
    /\ filt.phase = "built"
    /\ filt' = [filt EXCEPT !.phase = "relevant",
                            !.relevant = filterEvents(<<filt.issue>>, filt.sinceTime)]
    /\ UNCHANGED <<chg, col, bvars>>

FilterNext ==
    \/ FilterBuild
    \/ FilterOnce
    \/ FilterTwice
    \/ FilterEvents

SpecFilter == FilterInit /\ [][FilterNext]_vars

----------------------------------------------------------------------------
(* Properties of the recency filter.                                       *)

\* every node of a tree
RECURSIVE Nodes(_)
Nodes(i) == {i} \cup UNION {Nodes(i.Children[k]) : k \in 1..Len(i.Children)}

\* self-activity as the specification words it
SelfActivity(i, sinceTime) ==
    \/ i.Created > sinceTime
    \/ i.Status.When > sinceTime
    \/ \E k \in 1..Len(i.Comments) : i.Comments[k].When >= sinceTime

\* "self-activity or at least one kept child", as a definition of its own
RECURSIVE ShouldKeep(_, _)
ShouldKeep(i, sinceTime) ==
    \/ SelfActivity(i, sinceTime)
    \/ \E k \in 1..Len(i.Children) : ShouldKeep(i.Children[k], sinceTime)

KeysOf(issues) == [k \in 1..Len(issues) |-> issues[k].Key]

\* C8: applying KeptRecentEvents a second time with the same cutoff to the
\* result of the first application returns the same keep value and leaves the
\* tree (status names, comments, children at every depth) unchanged.
C8_FilterIdempotent ==
    filt.phase = "twice" =>
        /\ filt.twice.hasChanged = filt.once.hasChanged
        /\ filt.twice.issue = filt.once.issue

\* the first application kept the issue, pruned a child and kept another
C8_Witness ==
    /\ filt.phase = "twice"
    /\ filt.once.hasChanged
    /\ Len(filt.once.issue.Children) > 0
    /\ Len(filt.once.issue.Children) < Len(filt.issue.Children)
    /\ filt.once.issue.Status.Name = ""

\* C9: in every tree that survives filtering, every node present (the root
\* included) has self-activity or has at least one child still present.
C9_AncestorRetention ==
    /\ filt.phase = "relevant" =>
          \A t \in 1..Len(filt.relevant) :
              \A n \in Nodes(filt.relevant[t]) :
                  SelfActivity(n, filt.sinceTime) \/ Len(n.Children) > 0
    /\ (filt.phase = "once" /\ filt.once.hasChanged) =>
          \A n \in Nodes(filt.once.issue) :
              SelfActivity(n, filt.sinceTime) \/ Len(n.Children) > 0

\* a surviving tree whose root and child are kept only for a grandchild, and
\* from which a quiet child was pruned
C9_Witness ==
    /\ filt.phase = "relevant"
    /\ Len(filt.relevant) = 1
    /\ LET r == filt.relevant[1]
       IN /\ ~SelfActivity(r, filt.sinceTime)
          /\ Len(r.Children) < Len(filt.issue.Children)
          /\ \E k \in 1..Len(r.Children) :
                /\ ~SelfActivity(r.Children[k], filt.sinceTime)
                /\ Len(r.Children[k].Children) > 0

\* C10: the keep result of a node is true iff the node has self-activity
\* (created strictly after the cutoff, status.changedAt strictly after it, or
\* a comment not before it) or one of its children is kept; the children
\* retained are exactly the kept ones.
C10_KeepIffActivityOrKeptChild ==
    filt.phase = "once" =>
        /\ filt.once.hasChanged = ShouldKeep(filt.issue, filt.sinceTime)
        /\ KeysOf(filt.once.issue.Children) =
             KeysOf(SelectSeq(filt.issue.Children,
                              LAMBDA c : ShouldKeep(c, filt.sinceTime)))

\* created and status.changedAt equal to the cutoff, no comment, children
\* none of which is kept: the node is dropped
C10_Witness ==
    /\ filt.phase = "once"
    /\ filt.issue.Created = filt.sinceTime
    /\ filt.issue.Status.When = filt.sinceTime
    /\ filt.issue.Comments = << >>
    /\ Len(filt.issue.Children) > 0
    /\ ~filt.once.hasChanged

\* the node of the built tree that carries a key
Original(key) == CHOOSE n \in Nodes(filt.issue) : n.Key = key

\* C11: after filtering, the comments of a node are exactly its original
\* comments whose createdAt is not before the cutoff, in the original order: a
\* comment made at the cutoff stays, one made a time unit earlier goes.
C11_CommentCutoffBoundary ==
    filt.phase = "once" =>
        \A m \in Nodes(filt.once.issue) :
            m.Comments = SelectSeq(Original(m.Key).Comments,
                                   LAMBDA c : c.When >= filt.sinceTime)

\* a comment one unit before the cutoff was dropped, the one at the cutoff kept
C11_Witness ==
    /\ filt.phase = "once"
    /\ filt.issue.Comments = <<MkComment(filt.sinceTime - 1), MkComment(filt.sinceTime)>>
    /\ filt.once.issue.Comments = <<MkComment(filt.sinceTime)>>

\* C12: after filtering, a node whose status name is not empty has
\* status.changedAt strictly after the cutoff: the name is cleared when
\* changedAt is at or before the cutoff (the zero value included), also on a
\* node that is kept for another reason.
C12_StatusNameOnlyWhenRecent ==
    filt.phase = "once" =>
        \A m \in Nodes(filt.once.issue) :
            /\ m.Status.Name # "" => m.Status.When > filt.sinceTime
            /\ Original(m.Key).Status.When <= filt.sinceTime => m.Status.Name = ""
            /\ Original(m.Key).Status.When > filt.sinceTime =>
                  m.Status.Name = Original(m.Key).Status.Name

\* kept because created recently; the status, changed at the cutoff, lost
\* its name, and a kept child of unknown changedAt lost its name as well
C12_Witness ==
    /\ filt.phase = "once"
    /\ filt.once.hasChanged
    /\ filt.issue.Created > filt.sinceTime
    /\ filt.issue.Status.Name = "Done"
    /\ filt.issue.Status.When = filt.sinceTime
    /\ filt.once.issue.Status.Name = ""
    /\ \E k \in 1..Len(filt.once.issue.Children) :
          /\ filt.once.issue.Children[k].Status.When = ZeroTime
          /\ filt.once.issue.Children[k].Status.Name = ""

\* a is b with some elements removed: same order, nothing repeated
RECURSIVE IsSubseq(_, _)
IsSubseq(a, b) ==
    IF a = << >> THEN TRUE
    ELSE IF b = << >> THEN FALSE
    ELSE IF Head(a) = Head(b) THEN IsSubseq(Tail(a), Tail(b))
    ELSE IsSubseq(a, Tail(b))

\* the answer of the gateway for a key
Answer(key) == CHOOSE j \in Nodes(filt.json) : j.Key = key

\* C13: at every node the children after the build are in the order in which
\* the child query returned them, and the children after filtering are a
\* subsequence of them: filtering removes children, it neither reorders nor
\* repeats them.
C13_ChildrenOrderPreserved ==
    /\ filt.phase # "raw" =>
          \A n \in Nodes(filt.issue) :
              KeysOf(n.Children) = KeysOf(Answer(n.Key).Children)
    /\ filt.phase = "once" =>
          \A m \in Nodes(filt.once.issue) :
              IsSubseq(KeysOf(m.Children), KeysOf(Original(m.Key).Children))

\* two children were built in the order of the answer; the filter removed
\* the first and kept the second
C13_Witness ==
    /\ filt.phase = "once"
    /\ KeysOf(filt.json.Children) = << <<1, 1>>, <<1, 2>> >>
    /\ KeysOf(filt.issue.Children) = << <<1, 1>>, <<1, 2>> >>
    /\ KeysOf(filt.once.issue.Children) = << <<1, 2>> >>

\* C24: a top-level tree that is an embedder before filtering (empty key or
\* at least one child) loses its own comments before the filter runs: they
\* never count as self-activity and never appear in what is reported, so a
\* top issue with children whose only activity at or after the cutoff is a
\* comment of its own is not reported.
C24_EmbedderCommentsDiscarded ==
    (filt.phase = "relevant" /\ Embedder(filt.issue)) =>
        /\ \A t \in 1..Len(filt.relevant) : filt.relevant[t].Comments = << >>
        /\ filt.relevant # << >> <=>
              \/ filt.issue.Created > filt.sinceTime
              \/ filt.issue.Status.When > filt.sinceTime
              \/ \E k \in 1..Len(filt.issue.Children) :
                    ShouldKeep(filt.issue.Children[k], filt.sinceTime)

\* a top issue with quiet children, itself quiet but for a comment at the
\* cutoff: nothing is reported
C24_Witness ==
    /\ filt.phase = "relevant"
    /\ Len(filt.issue.Children) > 0
    /\ \E k \in 1..Len(filt.issue.Comments) :
          filt.issue.Comments[k].When >= filt.sinceTime
    /\ filt.issue.Created <= filt.sinceTime
    /\ filt.issue.Status.When <= filt.sinceTime
    /\ \A k \in 1..Len(filt.issue.Children) :
          ~ShouldKeep(filt.issue.Children[k], filt.sinceTime)
    /\ filt.relevant = << >>

----------------------------------------------------------------------------
(* SpecCollect: collect (actions.go), the grouping of the top issues.      *)

\* the longest list of top issues the Client returns
MaxTop == 2

\* validGroupOptions
GroupOptions == {"top", "merge", "children"}

\* the key "virtual": a key that is not empty and that no issue of the
\* tracker carries
VirtualKey == <<0>>

\* case "merge": []jira.Issue{{Key: "virtual", Children: topIssues}}, every
\* other field at its zero value
Merge(topIssues) ==
    << [Key |-> VirtualKey, IssueType |-> "", Created |-> ZeroTime,
        Status |-> NoStatus, Comments |-> << >>, Children |-> topIssues] >>

\* case "children": results = append(results, issue.Children...) for every
\* top issue in turn
RECURSIVE PromoteChildrenOrSelf(_)
PromoteChildrenOrSelf(topIssues) ==
    IF topIssues = << >> THEN << >>
    ELSE (IF Head(topIssues).Children = << >> THEN <<Head(topIssues)>>
          ELSE Head(topIssues).Children)
            \o PromoteChildrenOrSelf(Tail(topIssues))
RECURSIVE PromoteChildren(_)
PromoteChildren(topIssues) ==
    IF topIssues = << >> THEN << >>
    ELSE Head(topIssues).Children \o PromoteChildren(Tail(topIssues))

\* the switch on groupStrategy
Grouped(groupStrategy, topIssues) ==
    CASE groupStrategy = "merge" -> Merge(topIssues)
      [] groupStrategy = "children" -> PromoteChildren(topIssues)
      [] OTHER -> topIssues

\* built top issues as the Client returns them: a quiet issue with up to
\* MaxChildren children, each quiet or created recently
CollectLeaves == {l \in Leaves : l.Comments = << >> /\ l.Status.When = ZeroTime}

TopAnswers ==
    LET tops == {MkIssue(<<0>>, Cutoff - 1, Done(ZeroTime), << >>, ch) :
                    ch \in SeqsUpTo(CollectLeaves, MaxChildren)}
    IN {[k \in 1..Len(a) |-> Rekey(a[k], <<k>>)] : a \in SeqsUpTo(tops, MaxTop)}

\* PersistentPreRunE: with the merge strategy no-post is set, whatever the
\* flag said
NoPostAsGiven(groupStrategy, noPost) == noPost
ForcedNoPost(groupStrategy, noPost) ==
    IF groupStrategy = "merge" THEN TRUE ELSE noPost

\* what editSummaryAndPost can come to: the edited summary is posted with
\* AddComment, the user leaves it empty and nothing is posted, or the editor
\* or AddComment fails
PostOutcomes == {"posted", "empty", "error"}

\* the command line (group and no-post) and what the Client will return
CollectInit ==
    /\ \E g \in GroupOptions, a \in TopAnswers, np \in BOOLEAN :
          col = [phase |-> "config", groupStrategy |-> g, topIssues |-> a,
                 results |-> << >>, err |-> FALSE, noPost |-> np,
                 next |-> 1, printed |-> << >>, posted |-> << >>]
    /\ filt = << >>
    /\ chg = << >>
    /\ NoBuild

\* GetMyAssignedEpics or GetIssuesByKeys returned an error
CollectFails ==
    /\ col.phase = "fetching"
    /\ col' = [col EXCEPT !.phase = "returned", !.err = TRUE]
    /\ UNCHANGED <<filt, chg, bvars>>

\* PersistentPreRunE returns nil: the run starts
PreRun ==
    /\ col.phase = "config"
    /\ col' = [col EXCEPT !.phase = "fetching",
                          !.noPost = ForcedNoPost(col.groupStrategy, col.noPost)]
    /\ UNCHANGED <<filt, chg, bvars>>

\* the body of runRoot's loop for the next top-level tree: an embedder loses
\* its comments, a tree without recent events is skipped, the others are
\* reported and printed (no-post) or edited and posted
RunIssue(outcome) ==
    /\ col.phase = "returned"
    /\ ~col.err
    /\ col.next <= Len(col.results)
    /\ LET r == FilterTop(col.results[col.next], Cutoff)
       IN col' =
            IF ~r.hasChanged THEN [col EXCEPT !.next = @ + 1]
            ELSE IF col.noPost
              THEN [col EXCEPT !.next = @ + 1,
                               !.printed = Append(@, r.issue.Key)]
            ELSE CASE outcome = "posted" ->
                        [col EXCEPT !.next = @ + 1,
                                    !.posted = Append(@, r.issue.Key)]
                   [] outcome = "empty" -> [col EXCEPT !.next = @ + 1]
                   [] OTHER -> [col EXCEPT !.phase = "failed"]
    /\ UNCHANGED <<filt, chg, bvars>>

\* the top issues were fetched and are grouped
Collect ==
    /\ col.phase = "fetching"
    /\ col' = [col EXCEPT !.phase = "returned",
                          !.results = Grouped(col.groupStrategy, col.topIssues)]
    /\ UNCHANGED <<filt, chg, bvars>>

CollectNext ==
    \/ PreRun
    \/ CollectFails
    \/ Collect
    \/ \E outcome \in PostOutcomes : RunIssue(outcome)

SpecCollect == CollectInit /\ [][CollectNext]_vars

----------------------------------------------------------------------------
(* Properties of the grouping.                                             *)

Collected(groupStrategy) ==
    /\ col.phase \in {"returned", "failed"}
    /\ ~col.err
    /\ col.groupStrategy = groupStrategy

\* C14: under grouping mode merge, when the selector query yields no top
\* issue, no tree is emitted (no virtual root with empty children).
C14_MergeOfNothingEmitsNothing ==
    (Collected("merge") /\ col.topIssues = << >>) => col.results = << >>

\* C15: under grouping mode merge with at least one top issue, exactly one
\* tree is emitted; its root has the empty string as key and its children
\* are exactly the built top issues, each with its own subtree.
C15_MergeEmitsOneVirtualRoot ==
    (Collected("merge") /\ col.topIssues # << >>) =>
        /\ Len(col.results) = 1
        /\ col.results[1].Key = << >>
        /\ col.results[1].Children = col.topIssues

\* is key a before key b in the order of the top issues and, within a top
\* issue, of its children
KeyBefore(a, b) == a[1] < b[1] \/ (a[1] = b[1] /\ a[2] < b[2])

\* C16: under grouping mode children, the emitted trees are exactly the
\* direct children of the built top issues, in top-issue order and child
\* order; a top issue without children contributes nothing and no top issue
\* is itself emitted.
C16_ChildrenModePromotesChildren ==
    Collected("children") =>
        /\ \A k \in 1..Len(col.results) :
              LET r == col.results[k]
              IN /\ Len(r.Key) = 2
                 /\ r.Key[1] \in 1..Len(col.topIssues)
                 /\ r.Key[2] \in 1..Len(col.topIssues[r.Key[1]].Children)
                 /\ r = col.topIssues[r.Key[1]].Children[r.Key[2]]
        /\ \A k \in 1..(Len(col.results) - 1) :
              KeyBefore(col.results[k].Key, col.results[k + 1].Key)
        /\ \A t \in 1..Len(col.topIssues) :
              \A c \in 1..Len(col.topIssues[t].Children) :
                  \E k \in 1..Len(col.results) : col.results[k].Key = <<t, c>>

\* A with the children A1 and A2, B without children: exactly A1, A2
C16_Witness ==
    /\ Collected("children")
    /\ Len(col.topIssues) = 2
    /\ Len(col.topIssues[1].Children) = 2
    /\ col.topIssues[2].Children = << >>
    /\ KeysOf(col.results) = << <<1, 1>>, <<1, 2>> >>

\* C25: under grouping mode merge the post-comment capability is never
\* invoked: no-post is forced on before the run, so the virtual root is only
\* printed and no comment is ever posted to an issue without remote identity.
C25_MergeNeverPosts ==
    /\ (col.phase # "config" /\ col.groupStrategy = "merge") =>
          /\ col.noPost
          /\ col.posted = << >>
    /\ \A k \in 1..Len(col.posted) :
          col.posted[k] # VirtualKey /\ col.posted[k] # << >>

\* merge: the virtual root of two top issues had recent events; it was
\* printed and nothing was posted
C25_Witness ==
    /\ col.groupStrategy = "merge"
    /\ Len(col.topIssues) = 2
    /\ col.printed = <<VirtualKey>>
    /\ col.posted = << >>
    /\ col.next = 2

----------------------------------------------------------------------------
(* Timestamps on the wire (jiraTimeFormat, "2006-01-02T15:04:05.999-0700"): *)
(* a wall-clock reading and a numeric zone offset, or text that does not   *)
(* parse.  time.Parse yields the instant, wall minus offset.               *)

RawTimes ==
    {[wellFormed |-> FALSE, wall |-> 0, zone |-> 0]}
      \cup {[wellFormed |-> TRUE, wall |-> w, zone |-> z] :
                w \in 2..(MaxChanges + 1), z \in 0..1}

\* time.Parse(jiraTimeFormat, s)
ParseTime(raw) ==
    [ok |-> raw.wellFormed,
     time |-> IF raw.wellFormed THEN raw.wall - raw.zone ELSE ZeroTime]

----------------------------------------------------------------------------
(* Issue.fetchStatusUpdate (internal/jira/issues.go).                      *)

\* the inner loop over changeSet.Items: is there an item whose Field is
\* "status" and whose ToString is the issue's status name
HasStatusItem(items, statusName) ==
    \E k \in 1..Len(items) :
        items[k].Field = "status" /\ items[k].ToString = statusName

\* the loop labelled outer: entries whose time does not parse are skipped;
\* the first entry with a matching item updates Who/When if it is later than
\* the recorded When, and ends the loop (break outer)
RECURSIVE ScanChangelog(_, _)
ScanChangelog(values, status) ==
    IF values = << >> THEN status
    ELSE LET changeSet == Head(values)
             modTime == ParseTime(changeSet.Created)
         IN IF ~modTime.ok
              THEN ScanChangelog(Tail(values), status)
            ELSE IF HasStatusItem(changeSet.Items, status.Name)
              THEN IF After(modTime.time, status.When)
                     THEN [status EXCEPT !.Who = changeSet.Author,
                                         !.When = modTime.time]
                     ELSE status
            ELSE ScanChangelog(Tail(values), status)

ChangeItems ==
    SeqsUpTo({[Field |-> f, ToString |-> n] :
                 f \in {"status", "assignee"}, n \in {"Done", "In Progress"}},
             MaxItems)

ChangeSets ==
    {[Author |-> a, Created |-> c, Items |-> it] :
        a \in {"ann", "bob"}, c \in RawTimes, it \in ChangeItems}

\* the issue as newIssueFromJsonIssue leaves it before the facets run:
\* Status.Name from the raw issue, Who and When zero
StatusInit ==
    /\ \E values \in SeqsUpTo(ChangeSets, MaxChanges) :
          chg = [phase |-> "fetching", values |-> values, failed |-> FALSE,
                 status |-> [Name |-> "Done", Who |-> "", When |-> ZeroTime]]
    /\ filt = << >>
    /\ col = << >>
    /\ NoBuild

\* jiraGet succeeded: the changelog is scanned
StatusResolved ==
    /\ chg.phase = "fetching"
    /\ chg' = [chg EXCEPT !.phase = "resolved",
                          !.status = ScanChangelog(chg.values, chg.status)]
    /\ UNCHANGED <<filt, col, bvars>>

\* jiraGet failed: the error is returned, the status is left alone
StatusFailed ==
    /\ chg.phase = "fetching"
    /\ chg' = [chg EXCEPT !.phase = "resolved", !.failed = TRUE]
    /\ UNCHANGED <<filt, col, bvars>>

StatusNext ==
    \/ StatusResolved
    \/ StatusFailed

SpecStatus == StatusInit /\ [][StatusNext]_vars

\* the entries of a changelog that transition into statusName, with their
\* parsed time
Transitions(values, statusName) ==
    {k \in 1..Len(values) :
        /\ ParseTime(values[k].Created).ok
        /\ HasStatusItem(values[k].Items, statusName)}

\* C2: when two or more changelog entries transition into the issue's
\* current status, the resolved status.changedAt / changedBy are those of the
\* matching entry with the latest timestamp.
C2_LatestTransitionWins ==
    LET match == Transitions(chg.values, chg.status.Name)
    IN (chg.phase = "resolved" /\ ~chg.failed /\ Cardinality(match) >= 2) =>
          \E k \in match :
              /\ \A j \in match : ParseTime(chg.values[j].Created).time
                                     <= ParseTime(chg.values[k].Created).time
              /\ chg.status.When = ParseTime(chg.values[k].Created).time
              /\ chg.status.Who = chg.values[k].Author

----------------------------------------------------------------------------
(* The assembly: getIssuesByJQL (internal/jira/jira.go) drives one builder *)
(* goroutine per top issue; newIssueFromJsonIssue (internal/jira/issues.go)*)
(* runs three tasks per issue in an errgroup with its own context;         *)
(* fetchChildren builds the children one after the other.                  *)

\* What the Gateway answers: the top issues in query order, and the
\* children of each issue in query order.
TopIssues == << <<1>>, <<2>> >>

ChildrenOf(n) ==
    CASE n = <<1>> -> << <<1, 1>>, <<1, 2>> >>
      [] n = <<1, 2>> -> << <<1, 2, 1>> >>
      [] OTHER -> << >>

Range(seq) == {seq[k] : k \in 1..Len(seq)}

RECURSIVE Subtree(_)
Subtree(n) == {n} \cup UNION {Subtree(c) : c \in Range(ChildrenOf(n))}

Issues == UNION {Subtree(t) : t \in Range(TopIssues)}

Facets == {"status", "comments", "children"}

TopOf(n) == <<n[1]>>
Parent(n) == SubSeq(n, 1, Len(n) - 1)
IsTop(n) == Len(n) = 1

\* the other children of n's parent (a top issue is nobody's child)
Siblings(n) ==
    IF IsTop(n) THEN {} ELSE {s \in Range(ChildrenOf(Parent(n))) : s # n}

\* the issue and its ancestors
Lineage(n) == {SubSeq(n, 1, k) : k \in 1..Len(n)}

\* ctx.Done() as a task of issue n sees it: the context of n's errgroup is
\* derived from the one of its parent, and the top one from topIssuesCtx
Cancelled(n) == topCancel \/ \E a \in Lineage(n) : ctxDone[a]

\* var g errgroup.Group for the top issues: a zero Group has no context, an
\* error of one builder cancels nothing
TopGroupCancelsShared == TRUE
TopGroupCancels == FALSE

\* fetchStatusUpdate returns the error of its jiraGet
StatusReturn(failed) == IF failed THEN "err" ELSE "ok"

\* fetchComments returns the error of its jiraGet
CommentsReturn(failed) == IF failed THEN "err" ELSE "ok"

\* the result of Wait: the first error of the group, if any
WaitResult(err) == IF err = "none" THEN "built" ELSE "failed"

\* newIssueFromJsonIssue on the error of time.Parse: it is returned at once
CreatedErrorIgnored == "continue"
OnCreatedError == "return"

\* the loop of fetchChildren takes the children in the order of the answer:
\* is n the child the loop of its parent p has reached
AnyChild(p, n) == kidx[p] > 0
NextChild(p, n) ==
    /\ kidx[p] > 0
    /\ kidx[p] <= Len(ChildrenOf(p))
    /\ ChildrenOf(p)[kidx[p]] = n

\* the fields of the Issue under construction a task reads: the status task
\* compares with i.Status.Name and i.Status.When, appending reads the slice,
\* and every task formats i.Key into its request and its error
FacetReads(f) ==
    CASE f = "status" -> {"Key", "Status.Name", "Status.When"}
      [] f = "comments" -> {"Key", "Comments"}
      [] f = "children" -> {"Key", "Children"}

\* the fields a task writes
FacetWritesCommentsTouchStatus(f) ==
    CASE f = "status" -> {"Status.Who", "Status.When"}
      [] f = "comments" -> {"Comments", "Status.When"}
      [] f = "children" -> {"Children"}
FacetWrites(f) ==
    CASE f = "status" -> {"Status.Who", "Status.When"}
      [] f = "comments" -> {"Comments"}
      [] f = "children" -> {"Children"}

\* fetchChildren on the result of a child build: an error is returned at once
ChildErrorIgnored(childResult) == "next"
OnChildResult(childResult) == IF childResult = "failed" THEN "return" ELSE "next"

\* errgroup.Go on a task that returned: the first error is recorded and the
\* context of the group is cancelled
GroupAfterNoCancel(n, f, ret) ==
    [err |-> IF ret = "err" /\ groupErr[n] = "none" THEN f ELSE groupErr[n],
     done |-> ctxDone[n]]
GroupAfterLastError(n, f, ret) ==
    [err |-> IF ret = "err" THEN f ELSE groupErr[n],
     done |-> ctxDone[n] \/ ret = "err"]
GroupAfter(n, f, ret) ==
    [err |-> IF ret = "err" /\ groupErr[n] = "none" THEN f ELSE groupErr[n],
     done |-> ctxDone[n] \/ ret = "err"]

\* the loop of getIssuesByJQL after yield(issue, nil) returned more: it goes
\* on receiving, or returns
AfterYieldIgnoresStop(more) == "loop"
AfterYield(more) == IF more THEN "loop" ELSE "done"

\* g.Wait() of the goroutine that closes issueCh: it returns when every
\* builder goroutine has returned
SomeBuilderReturned == \E t \in Range(TopIssues) : gor[t] = "done"
AllBuildersReturned == \A t \in Range(TopIssues) : gor[t] = "done"

Init ==
    /\ filt = << >>
    /\ chg = << >>
    /\ col = << >>
    /\ badCreated = {}
    /\ overlap = {}
    /\ pc = "query"
    /\ node = [n \in Issues |-> "idle"]
    /\ facet = [n \in Issues |-> [f \in Facets |-> "idle"]]
    /\ kidx = [n \in Issues |-> 0]
    /\ kids = [n \in Issues |-> << >>]
    /\ ctxDone = [n \in Issues |-> FALSE]
    /\ groupErr = [n \in Issues |-> "none"]
    /\ gor = [t \in Range(TopIssues) |-> "idle"]
    /\ topErr = << >>
    /\ topCancel = FALSE
    /\ chClosed = FALSE
    /\ yielded = << >>

\* the top-level jiraGet fails: iterErr is set and the deferred function
\* yields the error
QueryTopFails ==
    /\ pc = "query"
    /\ pc' = "done"
    /\ yielded' = Append(yielded, [kind |-> "error", key |-> << >>])
    /\ UNCHANGED <<node, facet, kidx, kids, ctxDone, groupErr,
                   gor, topErr, topCancel, chClosed, filt, chg, col, badCreated, overlap>>

\* the top-level jiraGet answers: one goroutine per top issue is started
QueryTop ==
    /\ pc = "query"
    /\ pc' = "loop"
    /\ gor' = [t \in Range(TopIssues) |-> "building"]
    /\ UNCHANGED <<node, facet, kidx, kids, ctxDone, groupErr,
                   topErr, topCancel, chClosed, yielded, filt, chg, col, badCreated, overlap>>

\* newIssueFromJsonIssue is entered for issue n: by the goroutine of a top
\* issue, or by fetchChildren of the parent for the child it has reached
Called(n) ==
    /\ node[n] = "idle"
    /\ IF IsTop(n) THEN gor[n] = "building"
       ELSE /\ facet[Parent(n)]["children"] = "run"
            /\ NextChild(Parent(n), n)

\* newIssueFromJsonIssue(n) returns res to its caller, with cd the contexts
\* as the callee left them.  The goroutine of a top issue returns the error
\* to the group or goes on to send the issue on issueCh; fetchChildren of
\* the parent returns the error at once, or appends the child and goes on.
Returns(n, res, cd) ==
    IF IsTop(n)
      THEN /\ gor' = [gor EXCEPT ![n] = IF res = "built" THEN "sending" ELSE "done"]
           /\ topErr' = IF res = "failed" /\ topErr = << >> THEN n ELSE topErr
           /\ topCancel' = (topCancel \/ (res = "failed" /\ TopGroupCancels))
           /\ ctxDone' = cd
           /\ UNCHANGED <<facet, groupErr, kids, kidx>>
      ELSE LET p == Parent(n)
               last == kidx[p] = Len(ChildrenOf(p))
               ret == IF OnChildResult(res) = "return" THEN "err"
                      ELSE IF last THEN "ok" ELSE "run"
               g == GroupAfter(p, "children", ret)
           IN /\ facet' = [facet EXCEPT ![p]["children"] = ret]
              /\ groupErr' = [groupErr EXCEPT ![p] = g.err]
              /\ ctxDone' = [cd EXCEPT ![p] = g.done]
              /\ kids' = [kids EXCEPT ![p] = IF ret = "err" THEN @ ELSE Append(@, n)]
              /\ kidx' = [kidx EXCEPT ![p] = IF ret = "err" THEN @ ELSE @ + 1]
              /\ UNCHANGED <<gor, topErr, topCancel>>

\* the creation time parses: the three tasks are started
StartBuild(n) ==
    /\ Called(n)
    /\ node' = [node EXCEPT ![n] = "running"]
    /\ facet' = [facet EXCEPT ![n] = [f \in Facets |-> "run"]]
    /\ overlap' = IF \E s \in Siblings(n) : node[s] = "running"
                  THEN overlap \cup {Parent(n)} ELSE overlap
    /\ UNCHANGED <<pc, kidx, kids, ctxDone, groupErr, gor, topErr,
                   topCancel, chClosed, yielded, filt, chg, col, badCreated>>

\* the creation time does not parse: the build returns the error before any
\* task is started
StartBuildBadCreated(n) ==
    /\ Called(n)
    /\ badCreated' = badCreated \cup {n}
    /\ IF OnCreatedError = "return"
       THEN /\ node' = [node EXCEPT ![n] = "failed"]
            /\ Returns(n, "failed", ctxDone)
       ELSE /\ node' = [node EXCEPT ![n] = "running"]
            /\ facet' = [facet EXCEPT ![n] = [f \in Facets |-> "run"]]
            /\ UNCHANGED <<kidx, kids, ctxDone, groupErr, gor, topErr, topCancel>>
    /\ UNCHANGED <<pc, chClosed, yielded, filt, chg, col, overlap>>

\* the jiraGet of fetchStatusUpdate or fetchComments ends; with a cancelled
\* context it fails, otherwise the Gateway decides
FetchEnds(n, f, gatewayFails) ==
    /\ f \in {"status", "comments"}
    /\ facet[n][f] = "run"
    /\ Cancelled(n) => gatewayFails
    /\ LET ret == IF f = "status" THEN StatusReturn(gatewayFails)
                  ELSE CommentsReturn(gatewayFails)
           g == GroupAfter(n, f, ret)
       IN /\ facet' = [facet EXCEPT ![n][f] = ret]
          /\ groupErr' = [groupErr EXCEPT ![n] = g.err]
          /\ ctxDone' = [ctxDone EXCEPT ![n] = g.done]
    /\ UNCHANGED <<pc, node, kidx, kids, gor, topErr,
                   topCancel, chClosed, yielded, filt, chg, col, badCreated, overlap>>

\* the jiraGet of fetchChildren ends: on an error the task returns it; else
\* the loop over the children starts (and ends at once without children)
ChildrenQueried(n, gatewayFails) ==
    /\ facet[n]["children"] = "run"
    /\ kidx[n] = 0
    /\ Cancelled(n) => gatewayFails
    /\ LET ret == IF gatewayFails THEN "err"
                  ELSE IF ChildrenOf(n) = << >> THEN "ok" ELSE "run"
           g == GroupAfter(n, "children", ret)
       IN /\ facet' = [facet EXCEPT ![n]["children"] = ret]
          /\ groupErr' = [groupErr EXCEPT ![n] = g.err]
          /\ ctxDone' = [ctxDone EXCEPT ![n] = g.done]
          /\ kidx' = [kidx EXCEPT ![n] = IF gatewayFails THEN 0 ELSE 1]
    /\ UNCHANGED <<pc, node, kids, gor, topErr, topCancel,
                   chClosed, yielded, filt, chg, col, badCreated, overlap>>

\* g.Wait() of issue n returns: every task has ended; the context of the
\* group is cancelled; the issue or the wrapped first error is returned
Wait(n) ==
    /\ node[n] = "running"
    /\ \A f \in Facets : facet[n][f] \in {"ok", "err"}
    /\ node' = [node EXCEPT ![n] = WaitResult(groupErr[n])]
    /\ Returns(n, WaitResult(groupErr[n]), [ctxDone EXCEPT ![n] = TRUE])
    /\ UNCHANGED <<pc, chClosed, yielded, filt, chg, col, badCreated, overlap>>

\* the loop of getIssuesByJQL receives an issue and yields it; the caller
\* (runRoot through GetIssuesByKeys) filters, reports and prints or posts
\* it, and either asks for more or stops, which cancels topIssuesCtx
Receive(t, more) ==
    /\ pc = "loop"
    /\ gor[t] = "sending"
    /\ gor' = [gor EXCEPT ![t] = "done"]
    /\ yielded' = Append(yielded, [kind |-> "issue", key |-> t])
    /\ pc' = AfterYield(more)
    /\ topCancel' = (topCancel \/ ~more)
    /\ UNCHANGED <<node, facet, kidx, kids, ctxDone, groupErr,
                   topErr, chClosed, filt, chg, col, badCreated, overlap>>

\* the goroutine that waits for the builders: g.Wait() returns when all of
\* them have returned, then issueCh is closed
CloseChannel ==
    /\ pc # "query"
    /\ ~chClosed
    /\ AllBuildersReturned
    /\ chClosed' = TRUE
    /\ UNCHANGED <<pc, node, facet, kidx, kids, ctxDone,
                   groupErr, gor, topErr, topCancel, yielded, filt, chg, col, badCreated, overlap>>

\* the loop finds issueCh closed: iterErr = goroutinesErr, and the deferred
\* functions cancel topIssuesCtx and yield the error if there is one
IterEnds ==
    /\ pc = "loop"
    /\ chClosed
    /\ pc' = "done"
    /\ topCancel' = TRUE
    /\ yielded' = IF topErr = << >> THEN yielded
                  ELSE Append(yielded, [kind |-> "error", key |-> topErr])
    /\ UNCHANGED <<node, facet, kidx, kids, ctxDone, groupErr,
                   gor, topErr, chClosed, filt, chg, col, badCreated, overlap>>

Next ==
    \/ QueryTopFails
    \/ QueryTop
    \/ \E n \in Issues : StartBuild(n)
    \/ \E n \in Issues : StartBuildBadCreated(n)
    \/ \E n \in Issues, f \in Facets, b \in BOOLEAN : FetchEnds(n, f, b)
    \/ \E n \in Issues, b \in BOOLEAN : ChildrenQueried(n, b)
    \/ \E n \in Issues : Wait(n)
    \/ \E t \in Range(TopIssues), more \in BOOLEAN : Receive(t, more)
    \/ CloseChannel
    \/ IterEnds

Spec == Init /\ [][Next]_vars

\* the Go scheduler runs every goroutine that can take a step, and the
\* Gateway answers every request: the assembly does not stop while a step
\* is possible
FairSpec == Init /\ [][Next]_vars /\ WF_vars(Next)

----------------------------------------------------------------------------
(* Properties of the assembly.                                             *)

Tops == Range(TopIssues)

\* the build of issue n failed by itself: a task returned an error, or the
\* creation time did not parse
FailedAt(n) ==
    \/ \E f \in Facets : facet[n][f] = "err"
    \/ node[n] = "failed" /\ facet[n]["status"] = "idle"

FailedIn(t) == \E n \in Subtree(t) : FailedAt(n)

YieldedIssues == SelectSeq(yielded, LAMBDA y : y.kind = "issue")
YieldedErrors == SelectSeq(yielded, LAMBDA y : y.kind = "error")

\* C1: if any Gateway call or any build fails, the caller observes only the
\* single error: no issue is yielded before or after it.
C1_ErrorMeansNoIssueYielded ==
    YieldedErrors # << >> => (YieldedIssues = << >> /\ Len(YieldedErrors) = 1)

\* C3: a failure of the change-history fetch is suppressed: with the comment
\* and child tasks successful the build of the issue succeeds and its group is
\* not cancelled by the failure.
C3_HistoryFailureSuppressed ==
    \A n \in Issues :
        ( /\ facet[n]["status"] = "err"
          /\ facet[n]["comments"] = "ok"
          /\ facet[n]["children"] = "ok"
          /\ ~topCancel
          /\ \A a \in Lineage(n) \ {n} : ~ctxDone[a] )
        => /\ node[n] # "failed"
           /\ groupErr[n] = "none"

\* C4: the top issues are yielded in the order the Gateway query returned
\* them, whatever the completion order of the builds.
C4_YieldedInQueryOrder ==
    \A j, k \in 1..Len(YieldedIssues) :
        j < k => YieldedIssues[j].key[1] < YieldedIssues[k].key[1]

\* C5: if a task of a descendant at any depth of a top issue fails, the
\* build of the top issue fails and no node of its tree reaches the caller:
\* the top issue is neither sent on issueCh nor yielded.
C5_NestedFailureYieldsNothing ==
    \A t \in Tops :
        FailedIn(t) =>
            /\ node[t] # "built"
            /\ gor[t] # "sending"
            /\ \A k \in 1..Len(yielded) : yielded[k].key # t \/ yielded[k].kind = "error"

\* the comment fetch of a grandchild failed first, after a sibling subtree
\* had been built; the top build failed and the caller got the error
C5_Witness ==
    \E n \in Issues :
        /\ Len(n) = 3
        /\ groupErr[n] = "comments"
        /\ \E c \in Range(ChildrenOf(TopOf(n))) : node[c] = "built"
        /\ node[TopOf(n)] = "failed"
        /\ pc = "done"
        /\ YieldedErrors # << >>

\* C6: a step that sets the cancellation signal seen by a task of top issue
\* t is a step of the build of t itself, or the end of the iteration (the
\* caller stopped, or issueCh was found closed): a failure inside another top
\* build never sets it.
C6_FailureIsolation ==
    [][\A t \in Tops :
          (\E n \in Subtree(t) : ~Cancelled(n) /\ Cancelled(n)')
            => \/ \E n \in Subtree(t) : facet'[n] # facet[n] \/ node'[n] # node[n]
               \/ pc = "loop" /\ pc' = "done"]_vars

\* one top build has failed while a task of the other is in flight with its
\* signal unset
C6_Witness ==
    \E t, u \in Tops :
        /\ t # u
        /\ node[t] = "failed"
        /\ node[u] = "running"
        /\ \E f \in Facets : facet[u][f] = "run"
        /\ ~Cancelled(u)
        /\ pc = "loop"

\* C7 as stated: as soon as a task fails anywhere in the build of a top
\* issue, every task of that top issue still in flight sees the signal set.
C7_AllInFlightCancelledAtOnce ==
    \A t \in Tops :
        FailedIn(t) =>
            \A m \in Subtree(t), f \in Facets : facet[m][f] = "run" => Cancelled(m)

\* C7 amended: a failed task sets at once the signal of the group of its own
\* issue, seen by the other tasks of that issue and by every build below it;
\* a failed child build has set the signal of its parent's group when it has
\* returned; and a top build that has ended with a failure in it has failed.
C7_CancellationScope ==
    /\ \A n \in Issues :
          (\E f \in Facets : facet[n][f] = "err") =>
              \A m \in Subtree(n) : Cancelled(m)
    /\ \A n \in Issues :
          (~IsTop(n) /\ node[n] = "failed") => ctxDone[Parent(n)]
    /\ \A t \in Tops :
          (FailedIn(t) /\ node[t] \in {"built", "failed"}) => node[t] = "failed"

\* the comment fetch of a child has failed: its status task, still in
\* flight, sees the signal, the status task of the parent does not yet
C7_Witness ==
    \E n \in Issues :
        /\ ~IsTop(n)
        /\ facet[n]["comments"] = "err"
        /\ facet[n]["status"] = "run"
        /\ Cancelled(n)
        /\ facet[Parent(n)]["status"] = "run"
        /\ ~Cancelled(Parent(n))

\* C17: a raw issue whose creation timestamp does not parse makes the build
\* of its node fail before any of its three tasks (status history, comments,
\* children) is started, and with it the whole top-level build that contains
\* the node fails.
C17_BadCreatedFailsBeforeFacets ==
    \A n \in badCreated :
        /\ node[n] = "failed"
        /\ \A f \in Facets : facet[n][f] = "idle"
        /\ kidx[n] = 0 /\ kids[n] = << >>
        /\ ~IsTop(n) => facet[Parent(n)]["children"] = "err"
        /\ \A a \in Lineage(n) : node[a] # "built"
        /\ gor[TopOf(n)] # "sending"
        /\ \A k \in 1..Len(YieldedIssues) : YieldedIssues[k].key # TopOf(n)
        /\ (pc = "done" /\ chClosed) => node[TopOf(n)] = "failed"

\* the creation time of a grandchild did not parse: its top issue failed and
\* the iterator yielded the error
C17_Witness ==
    /\ <<1, 2, 1>> \in badCreated
    /\ facet[<<1, 2, 1>>] = [f \in Facets |-> "idle"]
    /\ node[<<1>>] = "failed"
    /\ \E k \in 1..Len(YieldedErrors) : YieldedErrors[k].key = <<1>>

\* the tasks of n that have returned an error
FailedFacets(n) == {f \in Facets : facet[n][f] = "err"}

\* C18: a node is returned as built only if its three tasks all completed
\* successfully; if one or more fail, the build returns one error, that of
\* the first task that failed, and the tasks still in flight see the
\* cancellation signal set.
C18_FirstFacetErrorWins ==
    /\ [](\A n \in Issues :
            /\ node[n] = "built" => \A f \in Facets : facet[n][f] = "ok"
            /\ (node[n] = "failed" /\ n \notin badCreated) =>
                  groupErr[n] \in FailedFacets(n)
            /\ FailedFacets(n) # {} =>
                  /\ groupErr[n] \in FailedFacets(n)
                  /\ node[n] # "built"
                  /\ \A f \in Facets : facet[n][f] = "run" => Cancelled(n))
    /\ [][\A n \in Issues :
            /\ groupErr[n] # "none" => groupErr'[n] = groupErr[n]
            /\ (FailedFacets(n) = {} /\ groupErr'[n] # "none") =>
                  facet'[n][groupErr'[n]] = "err"]_vars

\* two tasks of a node failed; the error kept is the one of the task that
\* failed first, and the build returned it
C18_Witness ==
    \E n \in Issues :
        /\ node[n] = "failed"
        /\ FailedFacets(n) = {"status", "comments"}
        /\ groupErr[n] = "comments"
        /\ facet[n]["children"] = "ok"

\* two children of the same parent are being built
SiblingsInFlight ==
    \E n \in Issues : node[n] = "running" /\ \E s \in Siblings(n) : node[s] = "running"

Concurrent(n, f, g) == f # g /\ facet[n][f] = "run" /\ facet[n][g] = "run"

\* C20: the three tasks of a node share no mutable state: no field of the
\* node under construction is written by one task while another task of the
\* same node, running at the same time, reads or writes it (the status task
\* writes only the status change, the comment task only the comments, the
\* child task only the children), so the built node does not depend on the
\* interleaving.
C20_FacetsShareNoField ==
    \A n \in Issues :
        /\ \A f, g \in Facets :
              Concurrent(n, f, g) =>
                  FacetWrites(f) \cap (FacetReads(g) \cup FacetWrites(g)) = {}
        /\ node[n] = "built" => kids[n] = ChildrenOf(n)

\* the three tasks of a node run at the same time, the child task inside its
\* loop with a child under construction
C20_Witness ==
    /\ \A f \in Facets : facet[<<1>>][f] = "run"
    /\ kidx[<<1>>] = 2
    /\ node[<<1, 2>>] = "running"

\* every builder goroutine has returned
BuildersDone == \A t \in Tops : gor[t] = "done"

\* the consumer's yield returned false: the loop returned without finding
\* issueCh closed
ConsumerStopped ==
    /\ pc = "done"
    /\ ~chClosed
    /\ yielded # << >>
    /\ yielded[Len(yielded)].kind = "issue"

\* C21: when the consumer of the iterator stops early, every top-level
\* builder eventually terminates: none stays blocked forever on handing its
\* issue to the iterator, and the goroutine that waits for the builders
\* eventually closes the channel.
C21_BuildersTerminateAfterStop ==
    ConsumerStopped ~> (BuildersDone /\ chClosed)

\* the iterator returned otherwise than by the consumer stopping it: the
\* top-level query failed, or the loop found issueCh closed
IteratorFinished == pc = "done" /\ ~ConsumerStopped

\* how many times the key of top issue t was yielded as an issue
TimesYielded(t) ==
    Cardinality({k \in 1..Len(yielded) :
                    yielded[k].kind = "issue" /\ yielded[k].key = t})

\* C22: with a finite hierarchy, every Gateway call returning or failing, and
\* a consumer that accepts every element, the iterator terminates; it yields
\* every successfully built top issue exactly once; the channel is closed
\* once, only after every builder has finished, and no builder sends on it
\* after it is closed.
C22_IteratorTerminatesCleanly ==
    /\ <>(ConsumerStopped \/ IteratorFinished)
    /\ [](\A t \in Tops :
            /\ TimesYielded(t) <= 1
            /\ TimesYielded(t) = 1 => node[t] = "built"
            /\ (IteratorFinished /\ node[t] = "built") => TimesYielded(t) = 1
            /\ chClosed => gor[t] = "done")
    /\ [][/\ chClosed => chClosed'
          /\ chClosed' # chClosed => \A t \in Tops : gor[t] = "done"]_vars

\* both top issues were built and yielded, then the channel was closed and
\* the iterator returned without an error
C22_Witness ==
    /\ pc = "done"
    /\ chClosed
    /\ Len(YieldedIssues) = 2
    /\ YieldedErrors = << >>

\* C23: the iterator yields an error at most once; the error is the last
\* element it yields (no issue follows an error); and no error is yielded
\* after the consumer has stopped the iteration.
C23_ErrorOnceAndLast ==
    /\ [](/\ Len(YieldedErrors) <= 1
          /\ \A k \in 1..(Len(yielded) - 1) : yielded[k].kind = "issue"
          /\ ConsumerStopped => YieldedErrors = << >>)
    /\ [][yielded' # yielded =>
            /\ ~ConsumerStopped
            /\ ~topCancel
            /\ YieldedErrors = << >>
            /\ yielded'[Len(yielded')].kind = "error" => pc' = "done"]_vars

\* a builder had failed when the consumer stopped the iteration: the error
\* is not yielded
C23_Witness ==
    /\ ConsumerStopped
    /\ topErr # << >>
    /\ YieldedErrors = << >>

====
